---- MODULE Spec2Model ----
(***************************************************************************)
(* Model of app/file_system.py (class FileSystem) and app/models.py.       *)
(*                                                                         *)
(* A Python str is a sequence of one-character strings, so that prefix     *)
(* tests, joins and normalisation are computed character by character the  *)
(* way posixpath computes them.  The file system is a tree keyed by        *)
(* component sequences; there are no symbolic links.                       *)
(***************************************************************************)
EXTENDS Integers, Sequences, FiniteSets, TLC

\* a local variable: F applied to the value of v, v evaluated once
With(v, F(_)) == CHOOSE r \in {F(x) : x \in {v}} : TRUE

(***************************************************************************)
(* str                                                                     *)
(***************************************************************************)
SEP == "/"

\* Python None where a str is expected (no str holds a multi-character element)
None == <<"None">>

\* Python None where an int is expected
Unset == 0 - 1

startswith(s, p) == Len(p) <= Len(s) /\ SubSeq(s, 1, Len(p)) = p

endswith(s, p) == Len(p) <= Len(s) /\ SubSeq(s, Len(s) - Len(p) + 1, Len(s)) = p

\* the position of the first c of s, 0 when there is none (str.find + 1)
find(s, c) ==
  IF \E i \in 1..Len(s) : s[i] = c
    THEN CHOOSE i \in 1..Len(s) : s[i] = c /\ \A j \in 1..(i - 1) : s[j] # c
    ELSE 0

\* the position of the last c of s, 0 when there is none (str.rfind + 1)
rfind(s, c) ==
  IF \E i \in 1..Len(s) : s[i] = c
    THEN CHOOSE i \in 1..Len(s) : s[i] = c /\ \A j \in (i + 1)..Len(s) : s[j] # c
    ELSE 0

\* str.split(c)
RECURSIVE split(_, _)
split(str, c) ==
  With(str, LAMBDA s :
  With(find(s, c), LAMBDA i :
    IF i = 0 THEN <<s>>
    ELSE <<SubSeq(s, 1, i - 1)>> \o split(SubSeq(s, i + 1, Len(s)), c)))

\* c.join(comps)
RECURSIVE strjoin(_, _)
strjoin(comps, c) ==
  With(comps, LAMBDA cs :
    IF Len(cs) = 0 THEN <<>>
    ELSE IF Len(cs) = 1 THEN cs[1]
    ELSE cs[1] \o <<c>> \o strjoin(Tail(cs), c))

\* s.rstrip(c)
rstrip(s, c) ==
  IF \E i \in 1..Len(s) : s[i] # c
    THEN SubSeq(s, 1, CHOOSE i \in 1..Len(s) : s[i] # c /\ \A j \in (i + 1)..Len(s) : s[j] = c)
    ELSE <<>>

(***************************************************************************)
(* posixpath                                                               *)
(***************************************************************************)
Cwd == <<SEP>>

isabs(p) == startswith(p, <<SEP>>)

\* os.path.join(a, b)
join(a, b) ==
  IF isabs(b) THEN b
  ELSE IF Len(a) = 0 \/ endswith(a, <<SEP>>) THEN a \o b
  ELSE a \o <<SEP>> \o b

\* the loop of os.path.normpath over the components
RECURSIVE normComps(_, _, _)
normComps(comps, new_comps, initial_slashes) ==
  With(comps, LAMBDA cs :
  With(new_comps, LAMBDA acc :
    IF Len(cs) = 0 THEN acc
    ELSE IF Head(cs) = <<>> \/ Head(cs) = <<".">>
      THEN normComps(Tail(cs), acc, initial_slashes)
    ELSE IF \/ Head(cs) # <<".", ".">>
            \/ (initial_slashes = 0 /\ Len(acc) = 0)
            \/ (Len(acc) > 0 /\ acc[Len(acc)] = <<".", ".">>)
      THEN normComps(Tail(cs), Append(acc, Head(cs)), initial_slashes)
    ELSE IF Len(acc) > 0
      THEN normComps(Tail(cs), SubSeq(acc, 1, Len(acc) - 1), initial_slashes)
    ELSE normComps(Tail(cs), acc, initial_slashes)))

\* os.path.normpath(path)
normpath(path) ==
  IF Len(path) = 0 THEN <<".">>
  ELSE With(IF ~startswith(path, <<SEP>>) THEN 0
            ELSE IF startswith(path, <<SEP, SEP>>) /\ ~startswith(path, <<SEP, SEP, SEP>>)
              THEN 2 ELSE 1,
            LAMBDA initial_slashes :
       With([i \in 1..initial_slashes |-> SEP]
              \o strjoin(normComps(split(path, SEP), <<>>, initial_slashes), SEP),
            LAMBDA res :
         IF Len(res) = 0 THEN <<".">> ELSE res))

\* os.path.abspath(path)
abspath(path) == IF isabs(path) THEN normpath(path) ELSE normpath(join(Cwd, path))

\* os.path.basename(p)
basename(p) == SubSeq(p, rfind(p, SEP) + 1, Len(p))

\* os.path.dirname(p)
dirname(p) ==
  With(SubSeq(p, 1, rfind(p, SEP)), LAMBDA head :
    IF Len(head) > 0 /\ \E i \in 1..Len(head) : head[i] # SEP
      THEN rstrip(head, SEP) ELSE head)

\* the components os.path.commonpath compares: split, without "" and "."
pathComps(p) == SelectSeq(split(p, SEP), LAMBDA c : c # <<>> /\ c # <<".">>)

\* the longest common prefix of two component lists
commonPrefix(a, b) ==
  SubSeq(a, 1, CHOOSE n \in 0..Len(a) :
                 /\ n <= Len(b)
                 /\ \A i \in 1..n : a[i] = b[i]
                 /\ (n < Len(a) /\ n < Len(b)) => a[n + 1] # b[n + 1])

\* os.path.commonpath([p, q]), both absolute or both relative
commonpath(p, q) ==
  With(pathComps(p), LAMBDA a :
  With(pathComps(q), LAMBDA b :
    (IF isabs(p) THEN <<SEP>> ELSE <<>>) \o strjoin(commonPrefix(a, b), SEP)))

(***************************************************************************)
(* The file system: a function from component paths (from "/") to nodes.   *)
(***************************************************************************)
NoEnt == <<None>>

Dir(sz) == [kind |-> "dir", size |-> sz, parses |-> FALSE]

File(sz, parses) == [kind |-> "file", size |-> sz, parses |-> parses]

\* the kernel's path walk from node cur over the components comps
RECURSIVE walk(_, _, _)
walk(tree, cur, comps) ==
  With(cur, LAMBDA at :
  With(comps, LAMBDA cs :
    IF Len(cs) = 0 THEN at
    ELSE IF tree[at].kind # "dir" THEN NoEnt
    ELSE IF Head(cs) = <<>> \/ Head(cs) = <<".">> THEN walk(tree, at, Tail(cs))
    ELSE IF Head(cs) = <<".", ".">>
      THEN walk(tree, IF Len(at) = 0 THEN at ELSE SubSeq(at, 1, Len(at) - 1), Tail(cs))
    ELSE IF Append(at, Head(cs)) \in DOMAIN tree
      THEN walk(tree, Append(at, Head(cs)), Tail(cs))
    ELSE NoEnt))

\* the node a path string names, NoEnt when there is none
lookup(tree, p) ==
  IF Len(p) = 0 THEN NoEnt ELSE walk(tree, pathComps(Cwd), split(p, SEP))

\* os.path.exists
exists(tree, p) == lookup(tree, p) # NoEnt

\* os.path.isdir
isdir(tree, p) ==
  With(lookup(tree, p), LAMBDA node : node # NoEnt /\ tree[node].kind = "dir")

\* os.stat(p).st_size
st_size(tree, p) == tree[lookup(tree, p)].size

\* os.scandir: the children of directory node d, in the enumeration order
scandir(tree, order, d) ==
  SelectSeq(order, LAMBDA n : Append(d, n) \in DOMAIN tree)

(***************************************************************************)
(* Outcomes: a returned value or a raised error                            *)
(***************************************************************************)
Ok(v) == [ok |-> TRUE, val |-> v]

Raise(e) == [ok |-> FALSE, err |-> e]

\* f applied to the value of an outcome, or the error it raised
Try(outcome, F(_)) == With(outcome, LAMBDA o : IF o.ok THEN F(o.val) ELSE o)

\* app/file_system.py: the messages of the errors raised
AccessDenied == "Access to the path is not allowed."
NotFound == "Path is not found."
SnapshotUnavailable == "Snapshot is not available."
SnapshotAccessDenied == "Access to the snapshot path is not allowed."
SnapshotDisabled == "Snapshot support is disabled."
SnapshotRootUnavailable == "Snapshot root is not available."
NotADirectory == "Path is not a directory"
IsADirectory == "Path is a directory"
TooLargeRead == "File is too large to download."
TooLargeReturn == "File is too large to return."
HachoirUnavailable == "hachoir is not available to extract metadata."
UnableToParse == "Unable to parse file"

(***************************************************************************)
(* FileSystem: path resolution                                             *)
(***************************************************************************)
\* FileSystem._check_path_is_in_excluded_folder
check_path_is_in_excluded_folder(cfg, path) ==
  \E excluded \in cfg.exclude_folders : startswith(path, excluded)

\* FileSystem._require_path_is_in_excluded_folder
require_path_is_in_excluded_folder(cfg, path) ==
  IF check_path_is_in_excluded_folder(cfg, path) THEN Raise(NotFound) ELSE Ok(path)

\* _build_path without the commonpath test
build_path_unchecked(cfg, relative_path) ==
  IF relative_path = None \/ relative_path = <<>> \/ relative_path = <<SEP>>
     \/ relative_path = <<".">>
    THEN Ok(cfg.file_system_path)
    ELSE Ok(abspath(join(cfg.file_system_path, relative_path)))

\* FileSystem._build_path
build_path(cfg, relative_path) ==
  IF relative_path = None \/ relative_path = <<>> \/ relative_path = <<SEP>>
     \/ relative_path = <<".">>
    THEN Ok(cfg.file_system_path)
    ELSE With(abspath(join(cfg.file_system_path, relative_path)), LAMBDA abs_path :
         With(abspath(cfg.file_system_path), LAMBDA base_dir :
           IF commonpath(abs_path, base_dir) # base_dir
             THEN Raise(AccessDenied)
             ELSE Ok(abs_path)))

\* FileSystem._ensure_path_allowed
ensure_path_allowed(cfg, relative_path) ==
  Try(build_path(cfg, relative_path), LAMBDA canonical_path :
    require_path_is_in_excluded_folder(cfg, canonical_path))

\* FileSystem._get_snapshot_root
get_snapshot_root(cfg, tree) ==
  IF cfg.snapshot_folder_name = None \/ cfg.snapshot_folder_name = <<>>
    THEN Raise(SnapshotDisabled)
    ELSE With(abspath(join(cfg.file_system_path, cfg.snapshot_folder_name)),
              LAMBDA snapshot_root :
           IF ~isdir(tree, snapshot_root) THEN Raise(SnapshotRootUnavailable)
           ELSE Ok(snapshot_root))

\* _build_snapshot_path that forgets the snapshot and builds the live path
build_snapshot_path_live(cfg, tree, snapshot_id, relative_path) ==
  Try(get_snapshot_root(cfg, tree), LAMBDA snapshot_root :
    build_path(cfg, relative_path))

\* FileSystem._build_snapshot_path
build_snapshot_path(cfg, tree, snapshot_id, relative_path) ==
  Try(get_snapshot_root(cfg, tree), LAMBDA snapshot_root :
    With(abspath(join(snapshot_root, snapshot_id)), LAMBDA snapshot_base :
      IF ~isdir(tree, snapshot_base) THEN Raise(SnapshotUnavailable)
      ELSE IF relative_path \in {<<>>, <<SEP>>, <<"\\">>} THEN Ok(snapshot_base)
      ELSE With(abspath(join(snapshot_base, relative_path)), LAMBDA abs_path :
             IF commonpath(abs_path, snapshot_base) # snapshot_base
               THEN Raise(SnapshotAccessDenied)
               ELSE Ok(abs_path))))

\* FileSystem._resolve_full_path
resolve_full_path(cfg, tree, relative_path, snapshot_id) ==
  With(IF relative_path \in {<<>>, <<SEP>>, <<"\\">>, None} THEN <<>> ELSE relative_path,
       LAMBDA normalized_path :
    Try(IF snapshot_id # None /\ snapshot_id # <<>>
          THEN Try(ensure_path_allowed(cfg, normalized_path), LAMBDA allowed :
                 build_snapshot_path(cfg, tree, snapshot_id, normalized_path))
          ELSE Try(build_path(cfg, normalized_path), LAMBDA built :
                 require_path_is_in_excluded_folder(cfg, built)),
        LAMBDA resolved :
          IF ~exists(tree, resolved) THEN Raise(NotFound) ELSE Ok(resolved)))

(***************************************************************************)
(* FileSystem: folder listing                                              *)
(***************************************************************************)
\* an int is true in a Python condition: neither None nor 0
Truthy(n) == n # Unset /\ n # 0

\* models.FolderItem
FolderItem(name, path) == [name |-> name, path |-> path]

\* models.FileItem.define_if_is_too_large
define_if_is_too_large(size, max_size) == size > max_size

\* models.FileItem, as folder_contents and get_metadata build it
FileItem(cfg, name, path, size) ==
  [name |-> name, path |-> path, size |-> size,
   is_too_large |-> IF Truthy(cfg.max_return_file_size)
                      THEN define_if_is_too_large(size, cfg.max_return_file_size)
                      ELSE FALSE]

\* models.FileSystemItem
FileSystemItem(is_folder, item) == [is_folder |-> is_folder, item |-> item]

\* the items of one kind, unwrapped, in order
items_of(items, is_folder) ==
  With(SelectSeq(items, LAMBDA it : it.is_folder = is_folder), LAMBDA kept :
    [i \in 1..Len(kept) |-> kept[i].item])

\* models.FolderContents.load_contents
load_contents(folder, items) ==
  [folder     |-> folder,
   subfolders |-> items_of(items, TRUE),
   files      |-> items_of(items, FALSE)]

\* the skip without its test of config.include_snapshot_root
is_hidden_snapshot_root_always(cfg, snapshot_id, is_dir, name) ==
  /\ snapshot_id = None \/ snapshot_id = <<>>
  /\ is_dir
  /\ cfg.snapshot_folder_name # None /\ cfg.snapshot_folder_name # <<>>
  /\ name = cfg.snapshot_folder_name

\* the snapshot-folder entry that folder_contents leaves out
is_hidden_snapshot_root(cfg, snapshot_id, is_dir, name) ==
  /\ snapshot_id = None \/ snapshot_id = <<>>
  /\ is_dir
  /\ ~cfg.include_snapshot_root
  /\ cfg.snapshot_folder_name # None /\ cfg.snapshot_folder_name # <<>>
  /\ name = cfg.snapshot_folder_name

\* the path of a child: relative_path, a "/" unless it is empty or ends
\* with one, and the entry's name
child_path(relative_path, name) ==
  (IF Len(relative_path) > 0 /\ ~endswith(relative_path, <<SEP>>)
     THEN relative_path \o <<SEP>> ELSE relative_path) \o name

\* the break taken one item late (> for >=)
scan_limit_reached_late(scan_first_items, items) ==
  Truthy(scan_first_items) /\ Len(items) > scan_first_items

\* the loop has appended enough items to stop
scan_limit_reached(scan_first_items, items) ==
  Truthy(scan_first_items) /\ Len(items) >= scan_first_items

\* the item folder_contents makes of the entry name of directory node d:
\* an outcome holding the item, or nothing for an entry left out
scan_entry(cfg, tree, d, name, relative_path, snapshot_id) ==
  With(tree[Append(d, name)], LAMBDA node :
  With(child_path(relative_path, name), LAMBDA item_path :
    IF is_hidden_snapshot_root(cfg, snapshot_id, node.kind = "dir", name)
      THEN Ok(<<>>)
    ELSE IF node.kind = "dir"
      THEN Try(build_path(cfg, item_path), LAMBDA absolute_item_path :
             IF check_path_is_in_excluded_folder(cfg, absolute_item_path)
               THEN Ok(<<>>)
               ELSE Ok(<<FileSystemItem(TRUE, FolderItem(name, item_path))>>))
    ELSE Ok(<<FileSystemItem(FALSE, FileItem(cfg, name, item_path, node.size))>>)))

\* the loop of folder_contents over the entries of the directory node d
RECURSIVE scan_loop(_, _, _, _, _, _, _, _)
scan_loop(cfg, tree, d, entries, relative_path, snapshot_id, scan_first_items, items) ==
  With(entries, LAMBDA es :
  With(items, LAMBDA acc :
    IF Len(es) = 0 THEN Ok(acc)
    ELSE Try(scan_entry(cfg, tree, d, Head(es), relative_path, snapshot_id), LAMBDA item :
           IF Len(item) = 0
             THEN scan_loop(cfg, tree, d, Tail(es), relative_path, snapshot_id,
                            scan_first_items, acc)
           ELSE IF scan_limit_reached(scan_first_items, acc \o item)
             THEN Ok(acc \o item)
           ELSE scan_loop(cfg, tree, d, Tail(es), relative_path, snapshot_id,
                          scan_first_items, acc \o item))))

\* the folder name without the trailing-slash case
folder_name_of_basename(relative_path) == basename(relative_path)

\* the name folder_contents gives the listed folder
folder_name_of(relative_path) ==
  IF endswith(relative_path, <<SEP>>)
    THEN basename(dirname(relative_path))
    ELSE basename(relative_path)

\* FileSystem.folder_contents
folder_contents(cfg, tree, order, relative_path_arg, scan_limit, snapshot_id) ==
  With(IF relative_path_arg = <<SEP>> \/ relative_path_arg = <<"\\">>
         THEN <<>> ELSE relative_path_arg,
       LAMBDA relative_path :
  With(IF scan_limit = Unset THEN cfg.max_scan_items ELSE scan_limit,
       LAMBDA scan_first_items :
    Try(resolve_full_path(cfg, tree, relative_path, snapshot_id), LAMBDA folder_path :
      IF ~isdir(tree, folder_path) THEN Raise(NotADirectory)
      ELSE With(lookup(tree, folder_path), LAMBDA d :
             Try(scan_loop(cfg, tree, d, scandir(tree, order, d), relative_path,
                           snapshot_id, scan_first_items, <<>>),
                 LAMBDA items :
                   Ok(load_contents(FolderItem(folder_name_of(relative_path),
                                               relative_path), items)))))))

(***************************************************************************)
(* FileSystem: file content and metadata                                   *)
(***************************************************************************)
\* SizeLimitKind
READ == "read"
RETURN == "return"
NONE == "none"
SizeLimitKind == {READ, RETURN, NONE}

\* the OSError of open() on a directory
IsADirectoryError == "[Errno 21] Is a directory"

\* FileSystem._check_file_size_is_not_too_large
check_file_size_is_not_too_large(cfg, tree, full_path, size_limit_kind) ==
  With(st_size(tree, full_path), LAMBDA size :
    IF size_limit_kind = READ
      THEN IF cfg.max_read_file_size # Unset /\ size > cfg.max_read_file_size
             THEN Raise(TooLargeRead) ELSE Ok(size)
    ELSE IF size_limit_kind = RETURN
      THEN IF cfg.max_return_file_size # Unset /\ size > cfg.max_return_file_size
             THEN Raise(TooLargeReturn) ELSE Ok(size)
    ELSE Ok(size))

\* what open(full_path, mode).read() returns: the content of the node
read_file(tree, full_path, mode) ==
  IF isdir(tree, full_path) THEN Raise(IsADirectoryError)
  ELSE Ok([mode |-> mode, of |-> lookup(tree, full_path)])

\* FileSystem.get_file_content
get_file_content(cfg, tree, path, size_limit_kind, snapshot_id) ==
  Try(resolve_full_path(cfg, tree, path, snapshot_id), LAMBDA full_path :
    Try(check_file_size_is_not_too_large(cfg, tree, full_path, size_limit_kind),
        LAMBDA size : read_file(tree, full_path, "rb")))

\* FileSystem.get_file_content_as_string
get_file_content_as_string(cfg, tree, path, size_limit_kind, snapshot_id) ==
  Try(resolve_full_path(cfg, tree, path, snapshot_id), LAMBDA full_path :
    Try(check_file_size_is_not_too_large(cfg, tree, full_path, size_limit_kind),
        LAMBDA size : read_file(tree, full_path, "r")))

\* FileSystem.get_metadata; parser_available: hachoir could be imported
get_metadata(cfg, tree, parser_available, path, snapshot_id) ==
  IF ~parser_available THEN Raise(HachoirUnavailable)
  ELSE Try(resolve_full_path(cfg, tree, path, snapshot_id), LAMBDA full_path :
         IF isdir(tree, full_path) THEN Raise(IsADirectory)
         ELSE With(lookup(tree, full_path), LAMBDA node :
                IF ~tree[node].parses THEN Raise(UnableToParse)
                ELSE Ok([file_item |-> FileItem(cfg, basename(path), path, tree[node].size),
                         metadata  |-> node])))

(***************************************************************************)
(* datetime.strptime, for the two formats of _parse_snapshot_timestamp      *)
(***************************************************************************)
\* the characters of the names, in code point order
CodePoints ==
  <<" ", ".", "/", "0", "1", "2", "3", "4", "5", "6", "7", "8", "9", "A",
    "B", "C", "D", "E", "F", "G", "H", "I", "J", "K", "L", "M", "N", "O",
    "P", "Q", "R", "S", "T", "U", "V", "W", "X", "Y", "Z", "\\", "_", "a",
    "b", "c", "d", "e", "f", "g", "h", "i", "j", "k", "l", "m", "n", "o",
    "p", "q", "r", "s", "t", "u", "v", "w", "x", "y", "z">>

\* the rank of a character in code point order: str compares by it
ord(c) == CHOOSE i \in 1..Len(CodePoints) : CodePoints[i] = c

isdigit(c) == c \in {"0", "1", "2", "3", "4", "5", "6", "7", "8", "9"}

\* str.lower
lower(s) ==
  [i \in 1..Len(s) |->
     IF ord(s[i]) >= ord("A") /\ ord(s[i]) <= ord("Z")
       THEN CodePoints[ord(s[i]) - ord("A") + ord("a")] ELSE s[i]]

\* int(s) of a string of digits, a leading blank skipped
RECURSIVE int(_)
int(s) ==
  IF Len(s) = 0 THEN 0
  ELSE IF s[Len(s)] = " " THEN 0
  ELSE 10 * int(SubSeq(s, 1, Len(s) - 1)) + (ord(s[Len(s)]) - ord("0"))

\* %Y: \d\d\d\d
matches_Y(s) == Len(s) = 4 /\ \A i \in 1..4 : isdigit(s[i])

\* %m: 1[0-2]|0[1-9]|[1-9]
matches_m(s) ==
  \/ Len(s) = 2 /\ s[1] = "1" /\ s[2] \in {"0", "1", "2"}
  \/ Len(s) = 2 /\ s[1] = "0" /\ isdigit(s[2]) /\ s[2] # "0"
  \/ Len(s) = 1 /\ isdigit(s[1]) /\ s[1] # "0"

\* %d: 3[01]|[12]\d|0[1-9]|[1-9]| [1-9]
matches_d(s) ==
  \/ Len(s) = 2 /\ s[1] = "3" /\ s[2] \in {"0", "1"}
  \/ Len(s) = 2 /\ s[1] \in {"1", "2"} /\ isdigit(s[2])
  \/ Len(s) = 2 /\ s[1] \in {"0", " "} /\ isdigit(s[2]) /\ s[2] # "0"
  \/ Len(s) = 1 /\ isdigit(s[1]) /\ s[1] # "0"

\* %H: 2[0-3]|[0-1]\d|\d
matches_H(s) ==
  \/ Len(s) = 2 /\ s[1] = "2" /\ s[2] \in {"0", "1", "2", "3"}
  \/ Len(s) = 2 /\ s[1] \in {"0", "1"} /\ isdigit(s[2])
  \/ Len(s) = 1 /\ isdigit(s[1])

\* the number of characters that %M takes at the head of s: [0-5]\d|\d
length_M(s) ==
  IF Len(s) >= 2 /\ s[1] \in {"0", "1", "2", "3", "4", "5"} /\ isdigit(s[2]) THEN 2
  ELSE IF Len(s) >= 1 /\ isdigit(s[1]) THEN 1
  ELSE 0

\* %Z: the names of time.tzname and "utc", "gmt", whatever the case (TZ is UTC)
matches_Z(s) == lower(s) \in {<<"u", "t", "c">>, <<"g", "m", "t">>}

is_leap(year) == year % 4 = 0 /\ (year % 100 # 0 \/ year % 400 = 0)

\* the days of a month of the proleptic Gregorian calendar
days_in_month(year, month) ==
  IF month = 2 THEN (IF is_leap(year) THEN 29 ELSE 28)
  ELSE IF month \in {4, 6, 9, 11} THEN 30
  ELSE 31

\* no datetime: strptime raised ValueError, or the timestamp is None
NoTimestamp == <<>>

\* datetime.min, a datetime being <<year, month, day, hour, minute>>
datetime_min == <<1, 1, 1, 0, 0>>

\* datetime.strptime(data_string, "%Y_%m_%d_%H.%M%Z") when zoned, else
\* datetime.strptime(data_string, "%Y_%m_%d_%H.%M"); NoTimestamp for ValueError
strptime(data_string, zoned) ==
  With(split(data_string, "_"), LAMBDA fields :
    IF Len(fields) # 4 THEN NoTimestamp
    ELSE With(find(fields[4], "."), LAMBDA dot :
      IF dot = 0 THEN NoTimestamp
      ELSE With(SubSeq(fields[4], 1, dot - 1), LAMBDA hour :
           With(SubSeq(fields[4], dot + 1, Len(fields[4])), LAMBDA tail :
           With(length_M(tail), LAMBDA n :
             IF \/ ~matches_Y(fields[1]) \/ ~matches_m(fields[2]) \/ ~matches_d(fields[3])
                \/ ~matches_H(hour) \/ n = 0
                \/ (zoned /\ ~matches_Z(SubSeq(tail, n + 1, Len(tail))))
                \/ (~zoned /\ n # Len(tail))
               THEN NoTimestamp
             ELSE IF \/ int(fields[1]) < 1
                     \/ int(fields[3]) > days_in_month(int(fields[1]), int(fields[2]))
               THEN NoTimestamp
             ELSE <<int(fields[1]), int(fields[2]), int(fields[3]), int(hour),
                    int(SubSeq(tail, 1, n))>>)))))

(***************************************************************************)
(* FileSystem: snapshots                                                   *)
(***************************************************************************)
\* FileSystem._parse_snapshot_timestamp
parse_snapshot_timestamp(snapshot_id) ==
  With(strptime(snapshot_id, TRUE), LAMBDA zoned :
    IF zoned # NoTimestamp THEN zoned ELSE strptime(snapshot_id, FALSE))

\* models.SnapshotSummary
SnapshotSummary(id, timestamp, contains_path) ==
  [id |-> id, display_name |-> id, timestamp |-> timestamp, contains_path |-> contains_path]

\* models.SnapshotList
SnapshotList(snapshot_folder, target_path, snapshots) ==
  [snapshot_folder |-> snapshot_folder, target_path |-> target_path, snapshots |-> snapshots]

\* a < b for tuples of integers, the way Python compares tuples and strings
tuple_less(a, b) ==
  \E n \in 0..Len(a) :
    /\ n <= Len(b)
    /\ \A i \in 1..n : a[i] = b[i]
    /\ \/ (n = Len(a) /\ n < Len(b))
       \/ (n < Len(a) /\ n < Len(b) /\ a[n + 1] < b[n + 1])

\* the key of list_snapshots' sort: (timestamp or datetime.min, id), the
\* five fields of the datetime followed by the characters of the id
sort_key(item) ==
  (IF item.timestamp # NoTimestamp THEN item.timestamp ELSE datetime_min)
    \o [i \in 1..Len(item.id) |-> ord(item.id[i])]

\* the sort with reverse = False
RECURSIVE sort_snapshots_ascending(_)
sort_snapshots_ascending(snapshots) ==
  With(snapshots, LAMBDA items :
    IF Len(items) = 0 THEN <<>>
    ELSE With(CHOOSE i \in 1..Len(items) :
                /\ \A j \in 1..Len(items) : ~tuple_less(sort_key(items[j]), sort_key(items[i]))
                /\ \A j \in 1..(i - 1) : tuple_less(sort_key(items[i]), sort_key(items[j])),
              LAMBDA first :
           <<items[first]>>
             \o sort_snapshots_ascending(SubSeq(items, 1, first - 1)
                                           \o SubSeq(items, first + 1, Len(items)))))

\* snapshots.sort(key = ..., reverse = True): the first of the greatest
\* keys, then the rest sorted, equal keys keeping their order
RECURSIVE sort_snapshots(_)
sort_snapshots(snapshots) ==
  With(snapshots, LAMBDA items :
    IF Len(items) = 0 THEN <<>>
    ELSE With(CHOOSE i \in 1..Len(items) :
                /\ \A j \in 1..Len(items) : ~tuple_less(sort_key(items[i]), sort_key(items[j]))
                /\ \A j \in 1..(i - 1) : tuple_less(sort_key(items[j]), sort_key(items[i])),
              LAMBDA first :
           <<items[first]>>
             \o sort_snapshots(SubSeq(items, 1, first - 1)
                                 \o SubSeq(items, first + 1, Len(items)))))

\* the loop of list_snapshots over the entries of the snapshot root
scan_snapshots(tree, order, snapshot_root, target_path) ==
  With(lookup(tree, snapshot_root), LAMBDA d :
  With(SelectSeq(scandir(tree, order, d), LAMBDA n : tree[Append(d, n)].kind = "dir"),
       LAMBDA entries :
    [i \in 1..Len(entries) |->
       SnapshotSummary(entries[i],
                       parse_snapshot_timestamp(entries[i]),
                       exists(tree, IF Len(target_path) > 0
                                      THEN join(join(snapshot_root, entries[i]), target_path)
                                      ELSE join(snapshot_root, entries[i])))]))

\* FileSystem.list_snapshots
list_snapshots(cfg, tree, order, path) ==
  With(IF path \in {<<>>, <<SEP>>, <<"\\">>} THEN <<>> ELSE path, LAMBDA target_path :
    IF cfg.snapshot_folder_name = None \/ cfg.snapshot_folder_name = <<>>
      THEN Ok(SnapshotList(<<>>, target_path, <<>>))
    ELSE With(get_snapshot_root(cfg, tree), LAMBDA snapshot_root :
      IF ~snapshot_root.ok
        THEN Ok(SnapshotList(cfg.snapshot_folder_name, target_path, <<>>))
      ELSE IF ~ensure_path_allowed(cfg, target_path).ok
        THEN Ok(SnapshotList(cfg.snapshot_folder_name, target_path, <<>>))
      ELSE Ok(SnapshotList(cfg.snapshot_folder_name, target_path,
                           sort_snapshots(scan_snapshots(tree, order, snapshot_root.val,
                                                         target_path))))))

(***************************************************************************)
(* State                                                                   *)
(***************************************************************************)
VARIABLES
  config,        \* FileSystem.config
  fs,            \* the directory tree on disk
  scan_order,    \* the order in which os.scandir enumerates names
  createParser,  \* whether hachoir was importable (else createParser is None)
  pc,            \* "idle", or "returned" after a call
  call,          \* the call made: method and arguments
  result         \* what the call returned or raised

vars == <<config, fs, scan_order, createParser, pc, call, result>>

(***************************************************************************)
(* The directory tree and the configurations explored                      *)
(***************************************************************************)
n_r == <<"r">>
n_o == <<"o">>
n_a == <<"a">>
n_f == <<"f">>
n_x == <<"x">>
n_s == <<"s">>
n_1 == <<"1">>
n_2 == <<"2">>
DotDot == <<".", ".">>

\* config.file_system_path
Root == <<SEP, "r">>

\* a share /r with a folder a, an excluded folder x, the snapshot folder s
\* holding the snapshots 1 and 2, and a sibling /o outside the share
Tree ==
     (<<>>                           :> Dir(2))
  @@ (<<n_o>>                        :> Dir(2))
  @@ (<<n_o, n_f>>                   :> File(1, FALSE))
  @@ (<<n_r>>                        :> Dir(2))
  @@ (<<n_r, n_f>>                   :> File(2, TRUE))
  @@ (<<n_r, n_a>>                   :> Dir(2))
  @@ (<<n_r, n_a, n_f>>              :> File(1, FALSE))
  @@ (<<n_r, n_x>>                   :> Dir(2))
  @@ (<<n_r, n_x, n_f>>              :> File(0, TRUE))
  @@ (<<n_r, n_s>>                   :> Dir(2))
  @@ (<<n_r, n_s, n_1>>              :> Dir(2))
  @@ (<<n_r, n_s, n_1, n_f>>         :> File(1, TRUE))
  @@ (<<n_r, n_s, n_1, n_a>>         :> Dir(2))
  @@ (<<n_r, n_s, n_1, n_a, n_f>>    :> File(2, FALSE))
  @@ (<<n_r, n_s, n_1, n_x>>         :> Dir(2))
  @@ (<<n_r, n_s, n_1, n_x, n_f>>    :> File(0, TRUE))
  @@ (<<n_r, n_s, n_2>>              :> Dir(2))

\* the tree without the nodes at or below node d
Without(tree, d) ==
  [q \in {q \in DOMAIN tree : ~(Len(q) >= Len(d) /\ SubSeq(q, 1, Len(d)) = d)} |-> tree[q]]

DefaultConfig ==
  [file_system_path      |-> Root,
   snapshot_folder_name  |-> n_s,
   include_snapshot_root |-> FALSE,
   exclude_folders       |-> {Root \o <<SEP>> \o n_x},
   max_scan_items        |-> 0,
   max_return_file_size  |-> Unset,
   max_read_file_size    |-> Unset]

DefaultOrder == <<n_a, n_f, n_s, n_x, n_1, n_2, n_r, n_o>>

NoCall == [op |-> "none"]

(***************************************************************************)
(* Caller-supplied strings                                                 *)
(***************************************************************************)
MaxSegments == 3

\* the sequences of at most n elements of S
RECURSIVE SeqsUpTo(_, _)
SeqsUpTo(S, n) ==
  IF n = 0 THEN {<<>>}
  ELSE LET P == SeqsUpTo(S, n - 1) IN P \cup {Append(q, c) : q \in P, c \in S}

\* the strings made of 1..n segments of S, after a lead and before a trail
PathStrings(S, n, Leads, Trails) ==
  {lead \o strjoin(cs, SEP) \o trail :
     cs \in SeqsUpTo(S, n) \ {<<>>}, lead \in Leads, trail \in Trails}

RootAliases == {<<>>, <<SEP>>, <<"\\">>, None}

\* relative paths as callers write them: "..", ".", names of the share,
\* absolute-looking ("/r/a", "//r/a") and with a trailing slash
RelativePaths ==
  RootAliases \cup
  PathStrings({DotDot, <<".">>, n_a, n_f, n_x, n_r}, MaxSegments,
              {<<>>, <<SEP>>, <<SEP, SEP>>}, {<<>>, <<SEP>>})

MaxIdSegments == 2

\* snapshot ids as callers write them: names, "..", separators, absolute-looking
SnapshotIds ==
  PathStrings({DotDot, n_1, n_x}, MaxIdSegments, {<<>>, <<SEP>>}, {<<>>})

\* relative paths asked of a snapshot
SnapshotRelativePaths ==
  RootAliases \cup
  PathStrings({DotDot, n_a, n_f, n_x}, MaxSegments, {<<>>, <<SEP>>}, {<<>>})

(***************************************************************************)
(* Path resolution as an operation                                         *)
(***************************************************************************)
InitResolve ==
  /\ config \in {[DefaultConfig EXCEPT !.exclude_folders = e, !.snapshot_folder_name = n] :
                   e \in {{}, {Root \o <<SEP>> \o n_x}}, n \in {None, n_s}}
  /\ fs = Tree
  /\ scan_order = DefaultOrder
  /\ createParser = TRUE
  /\ pc = "idle"
  /\ call = NoCall
  /\ result = NoCall

\* FileSystem._resolve_full_path(relative_path), no snapshot id
ResolveLive ==
  /\ pc = "idle"
  /\ \E relative_path \in RelativePaths, snapshot_id \in {None, <<>>} :
       /\ call' = [op |-> "_resolve_full_path", relative_path |-> relative_path,
                   snapshot_id |-> snapshot_id]
       /\ result' = resolve_full_path(config, fs, relative_path, snapshot_id)
  /\ pc' = "returned"
  /\ UNCHANGED <<config, fs, scan_order, createParser>>

\* FileSystem._resolve_full_path(relative_path, snapshot_id)
ResolveSnapshot ==
  /\ pc = "idle"
  /\ \E relative_path \in SnapshotRelativePaths, snapshot_id \in SnapshotIds :
       /\ call' = [op |-> "_resolve_full_path", relative_path |-> relative_path,
                   snapshot_id |-> snapshot_id]
       /\ result' = resolve_full_path(config, fs, relative_path, snapshot_id)
  /\ pc' = "returned"
  /\ UNCHANGED <<config, fs, scan_order, createParser>>

\* the caller takes the outcome; the next call starts afresh
Return ==
  /\ pc = "returned"
  /\ pc' = "idle"
  /\ call' = NoCall
  /\ result' = NoCall
  /\ UNCHANGED <<config, fs, scan_order, createParser>>

NextResolve == ResolveLive \/ ResolveSnapshot \/ Return

SpecResolve == InitResolve /\ [][NextResolve]_vars

(***************************************************************************)
(* The public operations on files                                          *)
(***************************************************************************)
\* paths asked of the operations: names of the share, "..", absolute-looking,
\* with and without a trailing slash
FilePaths ==
  (RootAliases \ {None}) \cup
  PathStrings({DotDot, n_a, n_f, n_x}, MaxSegments, {<<>>, <<SEP>>}, {<<>>, <<SEP>>})

\* no snapshot id, the two snapshots, and one that does not exist
FileSnapshotIds == {None, n_1, n_2, <<"9">>}

InitFiles ==
  /\ \E e \in {{}, {Root \o <<SEP>> \o n_x}}, m \in {Unset, 0, 1} :
       config = [DefaultConfig EXCEPT !.exclude_folders = e,
                                      !.max_return_file_size = m,
                                      !.max_read_file_size = 1]
  /\ fs = Tree
  /\ scan_order = DefaultOrder
  /\ createParser \in BOOLEAN
  /\ pc = "idle"
  /\ call = NoCall
  /\ result = NoCall

\* FileSystem.folder_contents(relative_path, scan_limit, snapshot_id)
FolderContents(paths, limits, ids) ==
  /\ pc = "idle"
  /\ \E relative_path \in paths, scan_limit \in limits, snapshot_id \in ids :
       /\ call' = [op |-> "folder_contents", path |-> relative_path,
                   scan_limit |-> scan_limit, snapshot_id |-> snapshot_id]
       /\ result' = folder_contents(config, fs, scan_order, relative_path, scan_limit,
                                    snapshot_id)
  /\ pc' = "returned"
  /\ UNCHANGED <<config, fs, scan_order, createParser>>

\* FileSystem.get_file_content(path, size_limit_kind, snapshot_id)
GetFileContent ==
  /\ pc = "idle"
  /\ \E path \in FilePaths, size_limit_kind \in SizeLimitKind, snapshot_id \in FileSnapshotIds :
       /\ call' = [op |-> "get_file_content", path |-> path,
                   size_limit_kind |-> size_limit_kind, snapshot_id |-> snapshot_id]
       /\ result' = get_file_content(config, fs, path, size_limit_kind, snapshot_id)
  /\ pc' = "returned"
  /\ UNCHANGED <<config, fs, scan_order, createParser>>

\* FileSystem.get_file_content_as_string(path, size_limit_kind, snapshot_id)
GetFileContentAsString ==
  /\ pc = "idle"
  /\ \E path \in FilePaths, size_limit_kind \in SizeLimitKind, snapshot_id \in FileSnapshotIds :
       /\ call' = [op |-> "get_file_content_as_string", path |-> path,
                   size_limit_kind |-> size_limit_kind, snapshot_id |-> snapshot_id]
       /\ result' = get_file_content_as_string(config, fs, path, size_limit_kind, snapshot_id)
  /\ pc' = "returned"
  /\ UNCHANGED <<config, fs, scan_order, createParser>>

\* FileSystem.get_metadata(path, snapshot_id)
GetMetadata ==
  /\ pc = "idle"
  /\ \E path \in FilePaths, snapshot_id \in FileSnapshotIds :
       /\ call' = [op |-> "get_metadata", path |-> path, snapshot_id |-> snapshot_id]
       /\ result' = get_metadata(config, fs, createParser, path, snapshot_id)
  /\ pc' = "returned"
  /\ UNCHANGED <<config, fs, scan_order, createParser>>

NextFiles ==
  \/ FolderContents(FilePaths, {Unset}, FileSnapshotIds)
  \/ GetFileContent
  \/ GetFileContentAsString
  \/ GetMetadata
  \/ Return

SpecFiles == InitFiles /\ [][NextFiles]_vars

(***************************************************************************)
(* Folder listing                                                          *)
(***************************************************************************)
\* the share with a folder named as the snapshot folder inside folder a
ListingTree == Tree @@ (<<n_r, n_a, n_s>> :> Dir(2))

\* os.scandir may enumerate the entries of the root in any order
ScanOrders ==
  {o \o <<n_1, n_2, n_r, n_o>> :
     o \in {o \in [1..4 -> {n_a, n_f, n_s, n_x}] : \A i, j \in 1..4 : o[i] = o[j] => i = j}}

MaxListingSegments == 2

\* folders as callers write them, with and without a trailing slash
ListingPaths ==
  (RootAliases \ {None}) \cup
  PathStrings({n_a, n_s, <<".">>}, MaxListingSegments, {<<>>}, {<<>>, <<SEP>>})

MaxScanLimit == 3

\* scan_limit: absent, or 0..MaxScanLimit
ScanLimits == {Unset} \cup 0..MaxScanLimit

InitListing ==
  /\ \E i \in BOOLEAN, e \in {{}, {Root \o <<SEP>> \o n_x}, {Root \o <<SEP>> \o n_s}} :
       config = [DefaultConfig EXCEPT !.include_snapshot_root = i,
                                      !.exclude_folders = e,
                                      !.max_scan_items = 2]
  /\ fs = ListingTree
  /\ scan_order \in ScanOrders
  /\ createParser = TRUE
  /\ pc = "idle"
  /\ call = NoCall
  /\ result = NoCall

NextListing == FolderContents(ListingPaths, ScanLimits, {None, n_1}) \/ Return

SpecListing == InitListing /\ [][NextListing]_vars

(***************************************************************************)
(* Snapshot listing                                                        *)
(***************************************************************************)
\* names of snapshot directories: timestamps, one of them with a zone, one
\* without leading zeros, the oldest datetime, a date that does not exist
\* and a name that is no timestamp
id_jan == <<"2", "0", "2", "4", "_", "0", "1", "_", "0", "1", "_", "1", "0", ".", "0", "0">>
id_feb == <<"2", "0", "2", "4", "_", "0", "2", "_", "0", "1", "_", "1", "0", ".", "0", "0">>
id_jan_utc == <<"2", "0", "2", "4", "_", "0", "1", "_", "0", "1", "_", "1", "0", ".", "0", "0", "U", "T", "C">>
id_jan_short == <<"2", "0", "2", "4", "_", "1", "_", "1", "_", "1", "0", ".", "0">>
id_min == <<"0", "0", "0", "1", "_", "0", "1", "_", "0", "1", "_", "0", "0", ".", "0", "0">>
id_feb30 == <<"2", "0", "2", "4", "_", "0", "2", "_", "3", "0", "_", "1", "0", ".", "0", "0">>
id_weird == <<"w", "e", "i", "r", "d", "_", "n", "a", "m", "e">>

SnapshotNames == {id_jan, id_feb, id_jan_utc, id_jan_short, id_min, id_feb30, id_weird}

MaxSnapshots == 3

\* the share with the snapshots named: a file beside them in the snapshot
\* folder, folder a in two of them and folder x in one
SnapshotTree(names) ==
     Without(Tree, <<n_r, n_s>>)
  @@ (<<n_r, n_s>> :> Dir(2))
  @@ (<<n_r, n_s, n_f>> :> File(1, FALSE))
  @@ [q \in {<<n_r, n_s, n>> : n \in names} |-> Dir(2)]
  @@ [q \in {<<n_r, n_s, n, n_a>> : n \in names \cap {id_jan, id_weird}} |-> Dir(2)]
  @@ [q \in {<<n_r, n_s, n, n_x>> : n \in names \cap {id_feb}} |-> Dir(2)]

\* two enumeration orders of os.scandir, one the reverse of the other
SnapshotOrder ==
  <<id_weird, id_jan, id_min, id_feb, n_f, id_jan_short, id_feb30, id_jan_utc,
    n_a, n_x, n_s, n_r, n_o>>

Reversed(seq) == [i \in 1..Len(seq) |-> seq[Len(seq) + 1 - i]]

MaxQuerySegments == 2

\* paths asked of list_snapshots: names of the share, absolute-looking
SnapshotQueryPaths ==
  (RootAliases \ {None}) \cup
  PathStrings({n_a, n_x, n_r}, MaxQuerySegments, {<<>>, <<SEP>>, <<SEP, SEP>>}, {<<>>})

InitSnapshots ==
  /\ \E n \in {None, <<>>, n_s}, e \in {{}, {Root \o <<SEP>> \o n_x}} :
       config = [DefaultConfig EXCEPT !.snapshot_folder_name = n, !.exclude_folders = e]
  /\ fs \in {SnapshotTree(names) :
               names \in {N \in SUBSET SnapshotNames : Cardinality(N) <= MaxSnapshots}}
             \cup {Without(Tree, <<n_r, n_s>>)}
  /\ scan_order \in {SnapshotOrder, Reversed(SnapshotOrder)}
  /\ createParser = TRUE
  /\ pc = "idle"
  /\ call = NoCall
  /\ result = NoCall

\* FileSystem.list_snapshots(path)
ListSnapshots ==
  /\ pc = "idle"
  /\ \E path \in SnapshotQueryPaths :
       /\ call' = [op |-> "list_snapshots", path |-> path]
       /\ result' = list_snapshots(config, fs, scan_order, path)
  /\ pc' = "returned"
  /\ UNCHANGED <<config, fs, scan_order, createParser>>

NextSnapshots == ListSnapshots \/ Return

SpecSnapshots == InitSnapshots /\ [][NextSnapshots]_vars

(***************************************************************************)
(* Properties of path resolution                                           *)
(***************************************************************************)
\* the components of a path string, as the kernel reads them
Components(p) == SelectSeq(split(p, SEP), LAMBDA c : c # <<>> /\ c # <<".">>)

\* p is absolute, has no ".." left, and names base or a location below it
Within(p, base) ==
  LET pcs == Components(p)
      bcs == Components(base)
  IN  /\ Len(p) > 0 /\ p[1] = SEP
      /\ \A i \in 1..Len(pcs) : pcs[i] # DotDot
      /\ Len(bcs) <= Len(pcs)
      /\ SubSeq(pcs, 1, Len(bcs)) = bcs

ResolvedLive ==
  pc = "returned" /\ call.op = "_resolve_full_path" /\ call.snapshot_id \in {None, <<>>}

ResolvedInSnapshot ==
  pc = "returned" /\ call.op = "_resolve_full_path" /\ call.snapshot_id \notin {None, <<>>}

\* C1: resolving a relative path against the live root, without a snapshot
\* id, either raises "access not allowed" or "not found", or returns an
\* absolute path that is the configured root or a descendant of it.
C1_LiveResolutionStaysInRoot ==
  ResolvedLive =>
    IF result.ok THEN Within(result.val, config.file_system_path)
    ELSE result.err \in {AccessDenied, NotFound}

\* a path with a ".." segment resolved to a location below the root
C1_Witness ==
  /\ ResolvedLive
  /\ call.relative_path # None
  /\ \E i \in 1..Len(split(call.relative_path, SEP)) : split(call.relative_path, SEP)[i] = DotDot
  /\ result.ok
  /\ result.val # config.file_system_path

\* the snapshot area <root>/<snapshotFolder>
SnapshotArea == join(config.file_system_path, config.snapshot_folder_name)

\* C2: resolving with a snapshot id either fails or returns a path inside a
\* snapshot root, a directory below <root>/<snapshotFolder>/; never a
\* location in the live tree, in an excluded folder, or outside the root.
C2_SnapshotResolutionStaysInSnapshotArea ==
  (ResolvedInSnapshot /\ result.ok) =>
    /\ Within(result.val, SnapshotArea)
    /\ Len(Components(result.val)) > Len(Components(SnapshotArea))

(***************************************************************************)
(* Properties of the operations on files                                   *)
(***************************************************************************)
PathOperations ==
  {"folder_contents", "get_file_content", "get_file_content_as_string", "get_metadata"}

Returned(ops) == pc = "returned" /\ call.op \in ops

\* the live absolute path of a relative path lies under an excluded prefix
UnderExcludedPrefix(relative_path) ==
  With(build_path(config, IF relative_path \in RootAliases THEN <<>> ELSE relative_path),
       LAMBDA live : live.ok /\ check_path_is_in_excluded_folder(config, live.val))

\* C3: for a relative path whose live absolute path lies under an excluded
\* prefix, folder_contents, get_file_content, get_file_content_as_string and
\* get_metadata fail with the not-found error, with or without a snapshot
\* id, whether or not the path exists and whether or not hachoir is there.
C3_ExcludedPathsAreNotFound ==
  (Returned(PathOperations) /\ UnderExcludedPrefix(call.path)) =>
    (~result.ok /\ result.err = NotFound)

\* the snapshots on disk: the directories directly below the snapshot folder
ExistingSnapshots ==
  {q[Len(q)] : q \in {q \in DOMAIN fs :
                        /\ Len(q) = Len(Components(SnapshotArea)) + 1
                        /\ SubSeq(q, 1, Len(q) - 1) = Components(SnapshotArea)
                        /\ fs[q].kind = "dir"}}

\* the node physically at <root>/<snapshotFolder>/<snapshot_id>/<path>
SnapshotCopy(snapshot_id, path) ==
  walk(fs, Append(Components(SnapshotArea), snapshot_id), split(path, SEP))

\* the size is within the limit that the kind selects
WithinLimit(size, size_limit_kind) ==
  CASE size_limit_kind = READ ->
         config.max_read_file_size = Unset \/ size <= config.max_read_file_size
    [] size_limit_kind = RETURN ->
         config.max_return_file_size = Unset \/ size <= config.max_return_file_size
    [] OTHER -> TRUE

\* the call reads, from an existing snapshot, a relative path that is allowed
\* in the live tree and names a file of the snapshot within the size limit
ReadsSnapshotFile ==
  /\ Returned({"get_file_content"})
  /\ config.snapshot_folder_name # None
  /\ call.snapshot_id \in ExistingSnapshots
  /\ Len(call.path) > 0 /\ call.path[1] # SEP
  /\ ensure_path_allowed(config, call.path).ok
  /\ SnapshotCopy(call.snapshot_id, call.path) # NoEnt
  /\ fs[SnapshotCopy(call.snapshot_id, call.path)].kind = "file"
  /\ WithinLimit(fs[SnapshotCopy(call.snapshot_id, call.path)].size, call.size_limit_kind)

\* C7: get_file_content(p, snapshot_id = S), for an existing snapshot S and
\* an allowed relative path p of a file within the size limit, returns the
\* bytes of the file at <root>/<snapshotFolder>/S/p, and of no other file.
C7_SnapshotReadReturnsSnapshotBytes ==
  ReadsSnapshotFile =>
    /\ result.ok
    /\ result.val = [mode |-> "rb", of |-> SnapshotCopy(call.snapshot_id, call.path)]

\* a snapshot file was read while the live tree holds another file at the path
C7_Witness ==
  /\ ReadsSnapshotFile
  /\ result.ok
  /\ lookup(fs, join(config.file_system_path, call.path)) # NoEnt
  /\ lookup(fs, join(config.file_system_path, call.path)) # result.val.of

\* the outcome of get_file_content on a path, in the snapshot of the call
ReadOutcome(path, size_limit_kind) ==
  get_file_content(config, fs, path, size_limit_kind, call.snapshot_id)

\* C8: the is_too_large flag of a listed file is true exactly when
\* get_file_content on that file with the return limit fails as too large,
\* for every max_return_file_size (0 and unset included); and
\* get_file_content with no limit never fails as too large.
C8_TooLargeFlagMatchesRead ==
  /\ (Returned({"folder_contents"}) /\ result.ok) =>
       \A i \in 1..Len(result.val.files) :
         result.val.files[i].is_too_large
           <=> /\ ~ReadOutcome(result.val.files[i].path, RETURN).ok
               /\ ReadOutcome(result.val.files[i].path, RETURN).err = TooLargeReturn
  /\ (Returned({"get_file_content"}) /\ call.size_limit_kind = NONE /\ ~result.ok) =>
       result.err \notin {TooLargeRead, TooLargeReturn}

(***************************************************************************)
(* Properties of folder listing                                            *)
(***************************************************************************)
\* a folder_contents call has returned a listing
Listed == Returned({"folder_contents"}) /\ result.ok

\* the number of entries of the listing, subfolders plus files
ListedTotal == Len(result.val.subfolders) + Len(result.val.files)

\* the directory node that the call lists
ListedDirectory ==
  lookup(fs, resolve_full_path(config, fs, call.path, call.snapshot_id).val)

\* the names of the children of directory node d
Children(d) ==
  {q[Len(q)] : q \in {q \in DOMAIN fs : Len(q) = Len(d) + 1 /\ SubSeq(q, 1, Len(d)) = d}}

\* the relative path that the call lists, "/" and "\\" being the root
ListedPath == IF call.path \in {<<SEP>>, <<"\\">>} THEN <<>> ELSE call.path

\* the absolute path, in the live tree, of the entry name of the listed folder
LivePath(name) == abspath(join(config.file_system_path, child_path(ListedPath, name)))

\* the entry is a directory whose live path is at or below an excluded prefix
ExcludedFolder(d, name) ==
  /\ fs[Append(d, name)].kind = "dir"
  /\ \E excluded \in config.exclude_folders : startswith(LivePath(name), excluded)

\* the entry is the snapshot folder, hidden from a listing of the live tree
HiddenSnapshotFolder(d, name) ==
  /\ call.snapshot_id \in {None, <<>>}
  /\ ~config.include_snapshot_root
  /\ fs[Append(d, name)].kind = "dir"
  /\ name = config.snapshot_folder_name

\* the children that a listing without truncation holds
ListableChildren ==
  {name \in Children(ListedDirectory) :
     ~ExcludedFolder(ListedDirectory, name) /\ ~HiddenSnapshotFolder(ListedDirectory, name)}

\* C4: for every directory and every scan_limit = N passed to
\* folder_contents, the listing has at most N entries, subfolders plus files.
C4_ScanLimitBoundsListing ==
  (Listed /\ call.scan_limit # Unset) => ListedTotal <= call.scan_limit

\* C4, amended: for every scan_limit N >= 1 the listing has at most N
\* entries; scan_limit 0 does not truncate, the listing then holds every
\* child that is neither an excluded folder nor the hidden snapshot folder.
C4_PositiveScanLimitBoundsListing ==
  (Listed /\ call.scan_limit # Unset) =>
    /\ call.scan_limit >= 1 => ListedTotal <= call.scan_limit
    /\ call.scan_limit = 0 => ListedTotal = Cardinality(ListableChildren)

\* a listing cut at N entries of a directory that holds more
C4_Witness ==
  /\ Listed
  /\ call.scan_limit >= 1
  /\ ListedTotal = call.scan_limit
  /\ Cardinality(ListableChildren) > call.scan_limit

\* a listing of the live tree while a snapshot folder name is configured
ListedLive ==
  /\ Listed
  /\ call.snapshot_id \in {None, <<>>}
  /\ config.snapshot_folder_name \notin {None, <<>>}

\* the limit the scan ran with
EffectiveScanLimit ==
  IF call.scan_limit = Unset THEN config.max_scan_items ELSE call.scan_limit

\* the scan ended before it reached its limit
NotTruncated == ~Truthy(EffectiveScanLimit) \/ ListedTotal < EffectiveScanLimit

\* the listed directory holds a folder named as the snapshot folder
HoldsSnapshotFolder ==
  /\ Append(ListedDirectory, config.snapshot_folder_name) \in DOMAIN fs
  /\ fs[Append(ListedDirectory, config.snapshot_folder_name)].kind = "dir"

\* the subfolders of the listing hold an entry named as the snapshot folder
ListsSnapshotFolder ==
  \E i \in 1..Len(result.val.subfolders) :
    result.val.subfolders[i].name = config.snapshot_folder_name

\* C5: folder_contents without a snapshot id, a snapshot folder name being
\* configured: with include_snapshot_root false no subfolder is named as the
\* snapshot folder; with include_snapshot_root true and no truncation the
\* snapshot folder of the listed directory is among the subfolders.
C5_SnapshotFolderVisibility ==
  ListedLive =>
    /\ ~config.include_snapshot_root => ~ListsSnapshotFolder
    /\ (config.include_snapshot_root /\ NotTruncated /\ HoldsSnapshotFolder)
         => ListsSnapshotFolder

\* C5, amended: as C5, the snapshot folder being listed with
\* include_snapshot_root true only if it is not at or below an excluded prefix.
C5_SnapshotFolderVisibleUnlessExcluded ==
  ListedLive =>
    /\ ~config.include_snapshot_root => ~ListsSnapshotFolder
    /\ (/\ config.include_snapshot_root /\ NotTruncated /\ HoldsSnapshotFolder
        /\ ~ExcludedFolder(ListedDirectory, config.snapshot_folder_name))
         => ListsSnapshotFolder

\* the snapshot folder listed by a scan that ran with a limit and was not cut
C5_Witness ==
  /\ ListedLive
  /\ config.include_snapshot_root
  /\ EffectiveScanLimit >= 1
  /\ NotTruncated
  /\ HoldsSnapshotFolder
  /\ ListsSnapshotFolder

\* the path of the call without its last character
Unslashed == SubSeq(call.path, 1, Len(call.path) - 1)

\* p names an existing folder other than the root it is resolved against
NonRootFolder(p, snapshot_id) ==
  With(resolve_full_path(config, fs, p, snapshot_id), LAMBDA at :
    /\ at.ok
    /\ isdir(fs, at.val)
    /\ lookup(fs, at.val) # lookup(fs, resolve_full_path(config, fs, <<>>, snapshot_id).val))

\* the call lists p + "/" for a non-root folder p written without trailing slash
ListedWithTrailingSlash ==
  /\ Returned({"folder_contents"})
  /\ endswith(call.path, <<SEP>>)
  /\ Len(Unslashed) > 0
  /\ ~endswith(Unslashed, <<SEP>>)
  /\ NonRootFolder(Unslashed, call.snapshot_id)

\* folder_contents(p), same scan limit and snapshot id as the call
ListingOfUnslashed ==
  folder_contents(config, fs, scan_order, Unslashed, call.scan_limit, call.snapshot_id)

\* C10: for an existing non-root folder p written without a trailing slash,
\* folder_contents(p + "/") and folder_contents(p) return the same folder
\* name, the last segment of p, and the same subfolders and files, with the
\* same names and the same relative paths.
C10_TrailingSlashIsIgnored ==
  ListedWithTrailingSlash =>
    With(ListingOfUnslashed, LAMBDA unslashed :
      /\ result.ok /\ unslashed.ok
      /\ result.val.folder.name = unslashed.val.folder.name
      /\ result.val.folder.name = split(Unslashed, SEP)[Len(split(Unslashed, SEP))]
      /\ result.val.subfolders = unslashed.val.subfolders
      /\ result.val.files = unslashed.val.files)

\* a folder with a subfolder and a file listed through a trailing slash
C10_Witness ==
  /\ ListedWithTrailingSlash
  /\ result.ok
  /\ Len(result.val.subfolders) > 0
  /\ Len(result.val.files) > 0

(***************************************************************************)
(* Properties of snapshot listing                                          *)
(***************************************************************************)
\* a list_snapshots call has returned a listing
ListedSnapshots == Returned({"list_snapshots"}) /\ result.ok

\* the timestamp of the i-th snapshot listed, the oldest datetime if it has none
TimestampOrOldest(i) ==
  IF result.val.snapshots[i].timestamp = NoTimestamp
    THEN datetime_min ELSE result.val.snapshots[i].timestamp

\* the id of the i-th snapshot listed, as code points
IdOf(i) ==
  [k \in 1..Len(result.val.snapshots[i].id) |-> ord(result.val.snapshots[i].id[k])]

\* the pairs i < j of positions of the listing
ListedPairs ==
  {ij \in (1..Len(result.val.snapshots)) \X (1..Len(result.val.snapshots)) : ij[1] < ij[2]}

\* the listing is in descending order of (timestamp or oldest, id):
\* timestamps never increase, equal timestamps come in descending id order
DescendingByTimestampThenId ==
  \A ij \in ListedPairs :
    /\ ~tuple_less(TimestampOrOldest(ij[1]), TimestampOrOldest(ij[2]))
    /\ TimestampOrOldest(ij[1]) = TimestampOrOldest(ij[2])
         => tuple_less(IdOf(ij[2]), IdOf(ij[1]))

\* C6: the snapshots of list_snapshots are in descending order of
\* (parsed timestamp, id), a name that does not parse counting as the oldest
\* timestamp: every snapshot with a timestamp precedes every snapshot
\* without one, timestamps never increase along the list, and equal
\* timestamps come in descending id order.
C6_SnapshotsParsedFirstThenDescending ==
  ListedSnapshots =>
    /\ DescendingByTimestampThenId
    /\ \A ij \in ListedPairs :
         result.val.snapshots[ij[1]].timestamp = NoTimestamp
           => result.val.snapshots[ij[2]].timestamp = NoTimestamp

\* C6, amended: descending order of (parsed timestamp or oldest, id); every
\* snapshot whose timestamp is later than the oldest datetime precedes
\* every snapshot without a timestamp.
C6_SnapshotsDescendingByTimestampThenId ==
  ListedSnapshots =>
    /\ DescendingByTimestampThenId
    /\ \A ij \in ListedPairs :
         result.val.snapshots[ij[1]].timestamp = NoTimestamp
           => result.val.snapshots[ij[2]].timestamp \in {NoTimestamp, datetime_min}

\* the listing of the snapshots 2024_02_01_10.00, 2024_01_01_10.00 and
\* weird_name, in that order
C6_Witness ==
  /\ ListedSnapshots
  /\ Len(result.val.snapshots) = 3
  /\ [i \in 1..3 |-> result.val.snapshots[i].id] = <<id_feb, id_jan, id_weird>>
  /\ scan_order = SnapshotOrder

\* no snapshot folder name is configured
SnapshotsDisabled == config.snapshot_folder_name \in {None, <<>>}

\* the snapshot folder is not a directory of the share
SnapshotRootMissing ==
  ~SnapshotsDisabled /\ ~isdir(fs, join(config.file_system_path, config.snapshot_folder_name))

\* the location that the queried path resolves to is an excluded folder of
\* the share or lies below one
QueriedPathExcluded ==
  \E excluded \in config.exclude_folders :
    Within(abspath(join(config.file_system_path, call.path)), excluded)

\* C9: list_snapshots does not fail and returns a listing without
\* snapshots, with the configured snapshot folder name and the queried
\* path, whenever snapshots are disabled, the snapshot folder is missing,
\* or the queried path lies in an excluded folder.
C9_NoSnapshotsWhenUnavailableOrExcluded ==
  (Returned({"list_snapshots"})
     /\ (SnapshotsDisabled \/ SnapshotRootMissing \/ QueriedPathExcluded)) =>
    /\ result.ok
    /\ result.val.snapshots = <<>>
    /\ result.val.snapshot_folder =
         (IF SnapshotsDisabled THEN <<>> ELSE config.snapshot_folder_name)
    /\ result.val.target_path =
         (IF call.path \in {<<SEP>>, <<"\\">>} THEN <<>> ELSE call.path)

(***************************************************************************)
(* Properties of reading a directory                                       *)
(***************************************************************************)
\* a read of file content has returned for a path that resolves to a directory
ReadOfDirectory ==
  /\ Returned({"get_file_content", "get_file_content_as_string"})
  /\ With(resolve_full_path(config, fs, call.path, call.snapshot_id), LAMBDA at :
       at.ok /\ isdir(fs, at.val))

\* C11: for a path that resolves to a directory, get_file_content and
\* get_file_content_as_string fail with the is-a-directory error, for every
\* size_limit_kind and every configured limit; never with a too-large
\* error, and never with content.
C11_DirectoryReadIsADirectory ==
  ReadOfDirectory =>
    /\ ~result.ok
    /\ result.err \in {IsADirectory, IsADirectoryError}

(***************************************************************************)
(* The operations on the snapshot copies of paths                          *)
(***************************************************************************)
MaxCopySegments == 2

\* relative paths p of the share: folders and files, the excluded ones too
CopyPaths == PathStrings({n_a, n_f, n_x}, MaxCopySegments, {<<>>}, {<<>>})

\* the live relative path <snapshotFolder>/S/p of the copy of p in snapshot S
LiveAddress(snapshot_id, path) == n_s \o <<SEP>> \o snapshot_id \o <<SEP>> \o path

\* the two ways to address a copy: p, and <snapshotFolder>/S/p
CopyAddresses ==
  CopyPaths \cup {LiveAddress(snapshot_id, path) : snapshot_id \in {n_1, n_2}, path \in CopyPaths}

InitCopies ==
  /\ \E i \in BOOLEAN, e \in {{}, {Root \o <<SEP>> \o n_x}} :
       config = [DefaultConfig EXCEPT !.include_snapshot_root = i, !.exclude_folders = e]
  /\ fs = Tree
  /\ scan_order = DefaultOrder
  /\ createParser = TRUE
  /\ pc = "idle"
  /\ call = NoCall
  /\ result = NoCall

\* FileSystem.get_file_content(path, size_limit_kind, snapshot_id)
GetFileContentOf(paths, ids) ==
  /\ pc = "idle"
  /\ \E path \in paths, size_limit_kind \in SizeLimitKind, snapshot_id \in ids :
       /\ call' = [op |-> "get_file_content", path |-> path,
                   size_limit_kind |-> size_limit_kind, snapshot_id |-> snapshot_id]
       /\ result' = get_file_content(config, fs, path, size_limit_kind, snapshot_id)
  /\ pc' = "returned"
  /\ UNCHANGED <<config, fs, scan_order, createParser>>

\* FileSystem.get_metadata(path, snapshot_id)
GetMetadataOf(paths, ids) ==
  /\ pc = "idle"
  /\ \E path \in paths, snapshot_id \in ids :
       /\ call' = [op |-> "get_metadata", path |-> path, snapshot_id |-> snapshot_id]
       /\ result' = get_metadata(config, fs, createParser, path, snapshot_id)
  /\ pc' = "returned"
  /\ UNCHANGED <<config, fs, scan_order, createParser>>

NextCopies ==
  \/ FolderContents(CopyAddresses, {Unset}, {None, n_1, n_2})
  \/ GetFileContentOf(CopyAddresses, {None, n_1, n_2})
  \/ GetMetadataOf(CopyAddresses, {None, n_1, n_2})
  \/ Return

SpecCopies == InitCopies /\ [][NextCopies]_vars

(***************************************************************************)
(* Properties of exclusion inside snapshots                                *)
(***************************************************************************)
\* the live location <root>/p is an excluded folder or lies below one
LiveExcluded(path) ==
  \E excluded \in config.exclude_folders :
    Within(abspath(join(config.file_system_path, path)), excluded)

\* the call addresses the copy of an excluded path p in a snapshot S on
\* disk: as (p, snapshot_id = S), or as <snapshotFolder>/S/p without snapshot id
AddressesExcludedCopy ==
  /\ Returned({"folder_contents", "get_file_content", "get_metadata"})
  /\ \/ call.snapshot_id \in ExistingSnapshots /\ LiveExcluded(call.path)
     \/ /\ call.snapshot_id = None
        /\ \E snapshot_id \in ExistingSnapshots, path \in CopyPaths :
             call.path = LiveAddress(snapshot_id, path) /\ LiveExcluded(path)

\* C12: for a snapshot S and a relative path p whose live path is excluded,
\* no folder_contents, get_file_content or get_metadata call succeeds on the
\* copy <root>/<snapshotFolder>/S/p, addressed as (p, snapshot_id = S) or as
\* the live path <snapshotFolder>/S/p, whatever include_snapshot_root is.
C12_ExcludedInsideSnapshots ==
  AddressesExcludedCopy => ~result.ok

====
